---- MODULE Spec2Model ----
(***************************************************************************)
(* Model of the "Dream Destination" wizard (app.py, genai.py, utils.py).   *)
(*                                                                         *)
(* One step of the wizard specification is one user interaction: the       *)
(* script run it triggers, from the sidebar down to the page body, and the *)
(* second run started by st.rerun() when the body asks for one.            *)
(* Python values that may be None are records; None is the empty record.   *)
(***************************************************************************)
EXTENDS Integers, Sequences, FiniteSets, TLC

VARIABLES
    page,                 \* st.session_state.page
    twitter_data,         \* st.session_state.twitter_data
    mbti,                 \* st.session_state.mbti
    mbti_scores,          \* st.session_state.mbti_scores
    travel_preferences,   \* st.session_state.travel_preferences
    travel_plan,          \* st.session_state.travel_plan
    uploaded_file,        \* value of the file_uploader widget of page 0
    event,                \* the control whose activation started the last step
    form,                 \* widget values read by the last run of page 1
    buttons,              \* in-page buttons drawn by the last completed run
    messages,             \* st.error / st.warning texts emitted in the last step
    calls,                \* GenAI methods invoked in the last step
    exception,            \* uncaught exception that ended the last run, or NoError
    generated,            \* invocations of create_detailed_travel_plan so far
    text_call,            \* one invocation of GenAI.generate_text (SpecText)
    mbti_call,            \* one invocation of GenAI.analyze_mbti (SpecMbti)
    plan_call,            \* one invocation of create_detailed_travel_plan (SpecPlan)
    displayed             \* profile card of the upload path on the screen, or None

vars == <<page, twitter_data, mbti, mbti_scores, travel_preferences, travel_plan,
          uploaded_file, event, form, buttons, messages, calls, exception,
          generated, text_call, mbti_call, plan_call, displayed>>

(***************************************************************************)
(* Bounds of the model.                                                    *)
(***************************************************************************)
NumDates == 3          \* calendar dates the date pickers offer
MaxSelected == 4       \* tags a user picks in the travel-style multiselect
MaxGenerated == 2      \* the invocation counter saturates here
MaxRows == 2           \* rows of an uploaded dataset

(***************************************************************************)
(* Python values.                                                          *)
(***************************************************************************)
None == [x \in {} |-> x]
Str(s) == [str |-> s]
Return(v) == [raised |-> FALSE, value |-> v]
Raise(e) == [raised |-> TRUE, exc |-> e]
NoError == ""
Get(d, k, default) == IF k \in DOMAIN d THEN d[k] ELSE default
Truthy(v) == v # None

Min(a, b) == IF a < b THEN a ELSE b

(***************************************************************************)
(* datetime.date: comparison and subtraction.                              *)
(***************************************************************************)
Date(y, m, d) == [y |-> y, m |-> m, d |-> d]

IsLeap(y) == y % 4 = 0 /\ (y % 100 # 0 \/ y % 400 = 0)

DaysInMonth(y, m) ==
    IF m = 2 THEN (IF IsLeap(y) THEN 29 ELSE 28)
    ELSE IF m \in {4, 6, 9, 11} THEN 30 ELSE 31

RECURSIVE DaysBeforeMonth(_, _)
DaysBeforeMonth(y, m) ==
    IF m = 1 THEN 0 ELSE DaysBeforeMonth(y, m - 1) + DaysInMonth(y, m - 1)

DaysBeforeYear(y) ==
    (y - 1) * 365 + ((y - 1) \div 4) - ((y - 1) \div 100) + ((y - 1) \div 400)

ToOrdinal(dt) == DaysBeforeYear(dt.y) + DaysBeforeMonth(dt.y, dt.m) + dt.d

\* a comparison that lets equal dates through
DateGT(a, b) ==
    \/ a.y > b.y
    \/ a.y = b.y /\ a.m > b.m
    \/ a.y = b.y /\ a.m = b.m /\ a.d > b.d

DateGE(a, b) ==
    \/ a.y > b.y
    \/ a.y = b.y /\ a.m > b.m
    \/ a.y = b.y /\ a.m = b.m /\ a.d >= b.d

DaysBetween(start, end) == ToOrdinal(end) - ToOrdinal(start)

(***************************************************************************)
(* genai.py: the remote chat endpoint and GenAI.generate_text.             *)
(* A backend is what one call of client.chat.completions.create does:      *)
(* it raises, or it returns a completion whose choices carry contents.     *)
(* A content is None, plain text Str(s), or text that is JSON, Json(v).    *)
(***************************************************************************)
Json(v) == [json |-> v]
IsStr(v) == "str" \in DOMAIN v \/ "json" \in DOMAIN v

Apology == Str("Sorry, I couldn't generate a response at the moment.")

ApiErrors == {"APIConnectionError", "AuthenticationError", "BadRequestError"}
Completion(cs) == [kind |-> "completion", choices |-> cs]
ApiError(e) == [kind |-> "error", exc |-> e]

\* every class the model raises derives from Exception
IsException(e) ==
    e \in ApiErrors \cup {"IndexError", "AttributeError", "JSONDecodeError", "KeyError"}

ChatCompletionsCreate(request, backend) ==
    IF backend.kind = "error" THEN Raise(backend.exc) ELSE Return(backend)

FirstMessageContent(completion) ==
    IF completion.choices = <<>> THEN Raise("IndexError")
    ELSE Return(completion.choices[1])

\* a handler that catches the client library's errors only
CatchesApiErrors(e) == e \in ApiErrors

\* "except Exception" of generate_text: the classes the handler catches
GenerateTextCatches(e) == IsException(e)

\* lines 27-28: the content of the first choice, unless the call raised
ReadResponse(completion) ==
    IF completion.raised THEN completion
    ELSE FirstMessageContent(completion.value)

\* lines 29-31: the except clause
OrApology(response) ==
    IF response.raised /\ GenerateTextCatches(response.exc)
    THEN Return(Apology)
    ELSE response

generate_text(prompt, instructions, model, output_type, temperature, backend) ==
    OrApology(ReadResponse(ChatCompletionsCreate(
        [model |-> model, temperature |-> temperature,
         response_format |-> output_type,
         system |-> instructions, user |-> prompt], backend)))

DefaultInstructions == "You are a helpful AI travel assistant"
DefaultModel == "gpt-4o"
DefaultTemperature == 10      \* temperature=1, in tenths

(***************************************************************************)
(* genai.py: GenAI.create_detailed_travel_plan.                            *)
(***************************************************************************)
\* markdown.markdown(text): a rendering of the text, an error on None
Markdown(text) ==
    IF ~IsStr(text) THEN Raise("AttributeError")
    ELSE Return([html_of |-> text])

\* the text of the except branch, parameterised by code, city and country
FallbackPlan(mbti_type, city, country) ==
    [str |-> "Unfortunately, a detailed plan could not be generated at this time.",
     mbti_type |-> mbti_type, city |-> city, country |-> country]

\* a label that names the country first
DestinationCountryFirst(city, country) == country \o ", " \o city

\* f"{city}, {country}"
Destination(city, country) == city \o ", " \o country

\* line 205, inside the try block
RenderResponse(response) ==
    IF response.raised THEN response ELSE Markdown(response.value)

\* lines 199-208 when the try block ran through, lines 210-233 when it raised
PlanOrFallback(mbti_type, city, country, duration, response, html) ==
    IF ~html.raised
    THEN [mbti_type |-> mbti_type,
          destination |-> Destination(city, country),
          duration |-> duration,
          plan_markdown |-> response.value,
          plan_html |-> html.value]
    ELSE [mbti_type |-> mbti_type,
          destination |-> Destination(city, country),
          duration |-> duration,
          plan_markdown |-> FallbackPlan(mbti_type, city, country),
          plan_html |-> Markdown(FallbackPlan(mbti_type, city, country)).value]

PlanFromResponse(mbti_type, city, country, duration, response) ==
    PlanOrFallback(mbti_type, city, country, duration, response,
                   RenderResponse(response))

create_detailed_travel_plan(mbti_type, city, country, duration, num_travelers, budget, travel_style, accommodation_type, must_see_attractions, food_preferences, backend) ==
    PlanFromResponse(mbti_type, city, country, duration,
        generate_text(
            [template |-> "detailed_travel_plan", duration |-> duration,
             mbti_type |-> mbti_type, city |-> city, country |-> country,
             num_travelers |-> num_travelers, budget |-> budget,
             travel_style |-> travel_style,
             accommodation_type |-> accommodation_type,
             must_see_attractions |-> must_see_attractions,
             food_preferences |-> food_preferences],
            "expert travel planner", "gpt-4", "text", 7, backend))

(***************************************************************************)
(* genai.py: GenAI.analyze_mbti, and utils.analyze_twitter_data.           *)
(***************************************************************************)
Letters == {"E", "I", "N", "S", "F", "T", "J", "P"}

FallbackType == Str("ENFP")
FallbackScores ==
    [E |-> 60, I |-> 40, N |-> 70, S |-> 30, F |-> 65, T |-> 35, J |-> 45, P |-> 55]
\* defaults that repeat the scores of the fallback profile
DefaultScoresOfFallback == FallbackScores

DefaultScores == [l \in Letters |-> 50]

JsonObject(fields) == [object |-> fields]
IsDict(v) == "object" \in DOMAIN v

JsonLoads(text) ==
    IF "json" \in DOMAIN text THEN Return(text.json) ELSE Raise("JSONDecodeError")

\* lines 65-66
ParseResponse(response) ==
    IF response.raised THEN response
    ELSE IF IsStr(response.value) THEN JsonLoads(response.value)
    ELSE response

\* lines 68-73
ReadProfile(parsed) ==
    IF parsed.raised THEN parsed
    ELSE IF ~IsDict(parsed.value) THEN Raise("AttributeError")
    ELSE Return([mbti_type |-> Get(parsed.value.object, "mbti_type", FallbackType),
                 scores |-> Get(parsed.value.object, "scores", DefaultScores)])

\* a handler that catches failed lookups only, not a failed parse
CatchesLookupErrors(e) == e \in {"KeyError", "AttributeError", "IndexError"}

\* "except Exception" of analyze_mbti: the classes the handler catches
AnalyzeMbtiCatches(e) == IsException(e)

\* lines 75-77: the except clause
OrFallbackProfile(result) ==
    IF result.raised /\ AnalyzeMbtiCatches(result.exc)
    THEN Return([mbti_type |-> FallbackType, scores |-> FallbackScores])
    ELSE result

analyze_mbti(tweets_df, backend) ==
    OrFallbackProfile(ReadProfile(ParseResponse(
        generate_text([template |-> "analyze_mbti", tweets |-> tweets_df],
                      "AI psychologist", DefaultModel, "json_object",
                      DefaultTemperature, backend))))

analyze_twitter_data(df, backend) == analyze_mbti(df, backend)

\* the keys generate_mbti_radar_chart reads from the score map
generate_mbti_radar_chart(scores) ==
    IF Letters \subseteq DOMAIN scores THEN Return("figure") ELSE Raise("KeyError")

(***************************************************************************)
(* app.py: the widgets of the pages and the values a user can give them.   *)
(***************************************************************************)
required_columns == <<"text", "favorite_count", "view_count">>
RequiredColumns == {required_columns[i] : i \in 1..Len(required_columns)}

\* a check that looks for the first two columns only
missing_text_or_favorites(columns) ==
    LET Missing(col) == col \notin columns
    IN  SelectSeq(SubSeq(required_columns, 1, 2), Missing)

\* line 189: the required columns the file lacks, in the order of the list
missing_columns(columns) ==
    LET Missing(col) == col \notin columns
    IN  SelectSeq(required_columns, Missing)

\* ', '.join(names)
RECURSIVE Join(_)
Join(names) ==
    IF names = <<>> THEN ""
    ELSE IF Len(names) = 1 THEN names[1]
    ELSE names[1] \o ", " \o Join(Tail(names))

\* line 192
MissingColumnsError(missing) == "Missing required columns: " \o Join(missing)

Tweet(t, f, v) == [text |-> t, favorite_count |-> f, view_count |-> v]

\* CSV files a user uploads: one with the required columns, two without
TweetsCsv ==
    [columns |-> RequiredColumns,
     rows |-> <<Tweet("beach", 3, 10), Tweet("museum", 2, 0), Tweet("hike", 0, 5)>>]
LikesCsv ==
    [columns |-> {"text", "favorite_count"},
     rows |-> <<Tweet("beach", 3, 0)>>]
TextCsv ==
    [columns |-> {"text", "lang"},
     rows |-> <<Tweet("beach", 0, 0)>>]
UploadFiles == {TweetsCsv, LikesCsv, TextCsv}

\* the values of a float64 column: the ratio of two integers, or one of
\* inf, -inf and nan
Inf == [float |-> "inf"]
NegInf == [float |-> "-inf"]
NaN == [float |-> "nan"]
Ratio(a, b) == [num |-> a, den |-> b]

\* the quotient of two int64 columns: x/0 is inf or -inf, 0/0 is nan
TrueDiv(a, b) ==
    IF b # 0 THEN Ratio(a, b)
    ELSE IF a > 0 THEN Inf
    ELSE IF a < 0 THEN NegInf
    ELSE NaN

\* line 196: df['engagement'] = df['favorite_count'] / df['view_count']
Engagement(row) == TrueDiv(row.favorite_count, row.view_count)

\* a replacement that leaves the infinities in the column
KeepInf(x) == x

\* line 197: df.replace([np.inf, -np.inf], np.nan)
ReplaceInf(x) == IF x \in {Inf, NegInf} THEN NaN ELSE x

WithEngagement(r, e) ==
    [text |-> r.text, favorite_count |-> r.favorite_count,
     view_count |-> r.view_count, engagement |-> e]

\* line 197: dropna(subset=['engagement']) keeps the rows that have a value
NotNa(r) == r.engagement # NaN

\* lines 196-197
CleanRows(rows) ==
    SelectSeq([i \in 1..Len(rows) |->
                  WithEngagement(rows[i], ReplaceInf(Engagement(rows[i])))],
              NotNa)

SampleType == Str("ENFP")
SampleScores ==
    [E |-> 75, I |-> 25, N |-> 80, S |-> 20, F |-> 65, T |-> 35, P |-> 70, J |-> 30]

\* st.number_input("Number of Travelers", min_value=1, max_value=10)
MinTravelers == 1
MaxTravelers == 10
NumberInput == {n \in {0, 1, 10, 11} : MinTravelers <= n /\ n <= MaxTravelers}

\* a table with one symbol typed twice
budget_options_typo ==
    ("Budget" :> "$") @@ ("Moderate" :> "$$") @@ ("Luxury" :> "$$")
        @@ ("Ultra-Luxury" :> "$$$$")

budget_options ==
    ("Budget" :> "$") @@ ("Moderate" :> "$$") @@ ("Luxury" :> "$$$")
        @@ ("Ultra-Luxury" :> "$$$$")
\* st.select_slider(options=list(budget_options.keys()))
SelectSlider == DOMAIN budget_options

TravelStyles ==
    <<"Adventure", "Relaxation", "Cultural", "Foodie", "Nature", "Shopping",
      "Nightlife", "Historical", "Family-friendly">>
DefaultStyle == <<"Cultural">>

Reverse(seq) == [i \in 1..Len(seq) |-> seq[Len(seq) + 1 - i]]

\* st.multiselect returns the chosen tags in the order they were picked; the
\* user picks from the bottom of the list upwards, or keeps the default
Multiselect ==
    {DefaultStyle} \cup
    {SubSeq(Reverse(TravelStyles), 1, n) : n \in 0..Min(MaxSelected, Len(TravelStyles))}

AccommodationTypes ==
    <<"Any", "Hotel", "Hostel", "Apartment", "Resort", "Boutique Hotel",
      "Bed & Breakfast">>

\* the dates the two st.date_input widgets offer; None until one is picked
Calendar ==
    <<Date(2024, 3, 1), Date(2024, 3, 5), Date(2024, 2, 28), Date(2023, 12, 31),
      Date(2024, 1, 10), Date(2025, 1, 1)>>
Dates == {Calendar[i] : i \in 1..Min(NumDates, Len(Calendar))}
DateInput == {None} \cup Dates

Form(country, city, start_date, end_date, num_travelers, budget, travel_style) ==
    [country |-> country, city |-> city,
     start_date |-> start_date, end_date |-> end_date,
     num_travelers |-> num_travelers, budget |-> budget,
     travel_style |-> travel_style,
     accommodation_type |-> "Any",
     must_see_attractions |-> "", food_preferences |-> ""]

\* forms whose destination and dates pass validation, with every value of
\* one of the other widgets
Earlier(a, b) ==
    a.y * 10000 + a.m * 100 + a.d < b.y * 10000 + b.m * 100 + b.d
ValidDates == {q \in Dates \X Dates : Earlier(q[1], q[2])}
FilledForms ==
    {Form("France", "Paris", q[1], q[2], n, "Moderate", DefaultStyle) :
        q \in ValidDates, n \in NumberInput}
    \cup {Form("France", "Paris", q[1], q[2], 1, b, DefaultStyle) :
        q \in ValidDates, b \in SelectSlider}
    \cup {Form("France", "Paris", q[1], q[2], 1, "Moderate", t) :
        q \in ValidDates, t \in Multiselect}
\* forms with any destination, or any dates, the other widgets as first drawn
BlankForms ==
    {Form(c, k, Calendar[1], Calendar[2], 1, "Moderate", DefaultStyle) :
        c \in {"", "France"}, k \in {"", "Paris"}}
    \cup {Form("France", "Paris", s, e, 1, "Moderate", DefaultStyle) :
        s \in DateInput, e \in DateInput}
Forms == FilledForms \cup BlankForms

(***************************************************************************)
(* app.py: one run of the script.  A run takes the session state s, the    *)
(* activated control ev, and the values of the widgets it reads; it gives  *)
(* the session state it leaves and what it drew.                           *)
(***************************************************************************)
Session ==
    [page |-> page, twitter_data |-> twitter_data, mbti |-> mbti,
     mbti_scores |-> mbti_scores, travel_preferences |-> travel_preferences,
     travel_plan |-> travel_plan]

Ran(s, b, m, c, e, rr, g) ==
    [s |-> s, buttons |-> b, messages |-> m, calls |-> c, exception |-> e,
     rerun |-> rr, generated |-> g]

NavButtons == {"nav_0", "nav_1", "nav_2", "nav_3"}
\* an enumeration of the sidebar buttons that counts from 1
NavIndexFromOne(ev) ==
    CASE ev = "nav_0" -> 1 [] ev = "nav_1" -> 2 [] ev = "nav_2" -> 3 [] ev = "nav_3" -> 4

\* line 165: enumerate(pages)
NavIndex(ev) ==
    CASE ev = "nav_0" -> 0 [] ev = "nav_1" -> 1 [] ev = "nav_2" -> 2 [] ev = "nav_3" -> 3

\* a sidebar whose buttons only lead forward
SidebarForward(s, ev) ==
    IF ev \in NavButtons /\ NavIndex(ev) > s.page
    THEN [s EXCEPT !.page = NavIndex(ev)] ELSE s

\* lines 165-167: a sidebar button sets the page, the run goes on
Sidebar(s, ev) ==
    IF ev \in NavButtons THEN [s EXCEPT !.page = NavIndex(ev)] ELSE s

\* lines 196-197
DataFrame(file) ==
    [columns |-> file.columns \cup {"engagement"}, rows |-> CleanRows(file.rows)]

\* a result page that moves on as soon as the classification is shown
ShowProfileAdvancing(s, ev, chart) ==
    IF chart.raised
    THEN Ran(s, {}, {"Error analyzing the data"}, {"analyze_mbti", "generate_text"},
             NoError, FALSE, 0)
    ELSE Ran([s EXCEPT !.page = 1], {}, {}, {"analyze_mbti", "generate_text"},
             NoError, TRUE, 0)

\* lines 207-227: the result is shown; a chart that fails ends the block in
\* the except clause, before the Proceed button
ShowProfile(s, ev, chart) ==
    IF chart.raised
    THEN Ran(s, {}, {"Error analyzing the data"}, {"analyze_mbti", "generate_text"},
             NoError, FALSE, 0)
    ELSE IF ev = "proceed_to_preferences"
    THEN Ran([s EXCEPT !.page = 1], {}, {}, {"analyze_mbti", "generate_text"},
             NoError, TRUE, 0)
    ELSE Ran(s, {"proceed_to_preferences"}, {}, {"analyze_mbti", "generate_text"},
             NoError, FALSE, 0)

\* lines 199-205; an exception out of the analysis ends the block in the
\* except clause of line 226, after the dataset was stored
StoreProfile(s, ev, df, result) ==
    IF result.raised
    THEN Ran([s EXCEPT !.twitter_data = df], {}, {"Error analyzing the data"},
             {"analyze_mbti"}, NoError, FALSE, 0)
    ELSE ShowProfile([s EXCEPT !.twitter_data = df,
                               !.mbti = result.value.mbti_type,
                               !.mbti_scores = result.value.scores],
                     ev, generate_mbti_radar_chart(result.value.scores))

\* an upload block that keeps the profile the session already holds
UploadBlockCached(s, ev, file, backend) ==
    IF file = None THEN Ran(s, {}, {}, {}, NoError, FALSE, 0)
    ELSE IF missing_columns(file.columns) # <<>>
    THEN Ran(s, {}, {MissingColumnsError(missing_columns(file.columns))}, {},
             NoError, FALSE, 0)
    ELSE IF s.mbti # None
    THEN ShowProfile(s, ev, generate_mbti_radar_chart(s.mbti_scores))
    ELSE StoreProfile(s, ev, DataFrame(file),
                      analyze_twitter_data(DataFrame(file), backend))

\* lines 183-227
UploadBlock(s, ev, file, backend) ==
    IF file = None THEN Ran(s, {}, {}, {}, NoError, FALSE, 0)
    ELSE IF missing_columns(file.columns) # <<>>
    THEN Ran(s, {}, {MissingColumnsError(missing_columns(file.columns))}, {},
             NoError, FALSE, 0)
    ELSE StoreProfile(s, ev, DataFrame(file),
                      analyze_twitter_data(DataFrame(file), backend))

\* lines 229-288: the sample button and the right-hand panel, which a rerun
\* asked for by the upload block never reaches
SampleBlock(r, ev) ==
    IF r.rerun THEN r
    ELSE Ran(IF ev = "use_sample"
             THEN [r.s EXCEPT !.mbti = SampleType, !.mbti_scores = SampleScores]
             ELSE r.s,
             r.buttons \cup {"use_sample"}
                \cup (IF ev = "use_sample" THEN {"proceed_from_sample"} ELSE {}),
             r.messages,
             r.calls \cup {"generate_image", "generate_text"},
             NoError, FALSE, 0)

\* lines 173-288
RenderPage0(s, ev, file, backend) == SampleBlock(UploadBlock(s, ev, file, backend), ev)

\* a cap that keeps the last three tags picked
CapStylesLast(selection) ==
    IF Len(selection) > 3
    THEN SubSeq(selection, Len(selection) - 2, Len(selection)) ELSE selection

\* lines 337-340: the selection is cut to its first three tags
CapStyles(selection) ==
    IF Len(selection) > 3 THEN SubSeq(selection, 1, 3) ELSE selection

\* a validation that forgets the city
ValidationErrorNoCity(country, city, start_date, end_date, travel_style) ==
    IF country = "" THEN "Please enter both country and city."
    ELSE IF start_date = None \/ end_date = None
        THEN "Please select both start and end dates."
    ELSE IF DateGE(start_date, end_date) THEN "End date must be after start date."
    ELSE IF Len(travel_style) > 3 THEN "Please select a maximum of 3 travel styles."
    ELSE NoError

\* lines 359-366: the error of the first check that fails, or NoError
ValidationError(country, city, start_date, end_date, travel_style) ==
    IF country = "" \/ city = "" THEN "Please enter both country and city."
    ELSE IF start_date = None \/ end_date = None
        THEN "Please select both start and end dates."
    ELSE IF DateGE(start_date, end_date) THEN "End date must be after start date."
    ELSE IF Len(travel_style) > 3 THEN "Please select a maximum of 3 travel styles."
    ELSE NoError

\* a duration that leaves out the day of arrival
DurationExclusive(start_date, end_date) == DaysBetween(start_date, end_date)

\* line 381
Duration(start_date, end_date) == DaysBetween(start_date, end_date) + 1

\* a save that stores the tags as selected, before the cap
PreferencesUncapped(f, travel_style) ==
    [country |-> f.country, city |-> f.city,
     start_date |-> f.start_date, end_date |-> f.end_date,
     num_travelers |-> f.num_travelers,
     budget |-> f.budget, budget_level |-> budget_options[f.budget],
     travel_style |-> f.travel_style,
     accommodation_type |-> f.accommodation_type,
     must_see_attractions |-> f.must_see_attractions,
     food_preferences |-> f.food_preferences,
     duration |-> DaysBetween(f.start_date, f.end_date) + 1]

\* lines 369-382
Preferences(f, travel_style) ==
    [country |-> f.country, city |-> f.city,
     start_date |-> f.start_date, end_date |-> f.end_date,
     num_travelers |-> f.num_travelers,
     budget |-> f.budget, budget_level |-> budget_options[f.budget],
     travel_style |-> travel_style,
     accommodation_type |-> f.accommodation_type,
     must_see_attractions |-> f.must_see_attractions,
     food_preferences |-> f.food_preferences,
     duration |-> Duration(f.start_date, f.end_date)]

\* lines 301-355: the values the widgets of page 1 show when first drawn
DefaultForm(s) ==
    LET preferences == s.travel_preferences
    IN  [country |-> Get(preferences, "country", ""),
         city |-> Get(preferences, "city", ""),
         start_date |-> None, end_date |-> None,
         num_travelers |-> Get(preferences, "num_travelers", 1),
         budget |-> Get(preferences, "budget", "Moderate"),
         travel_style |-> Get(preferences, "travel_style", DefaultStyle),
         accommodation_type |-> Get(preferences, "accommodation_type", "Any"),
         must_see_attractions |-> Get(preferences, "must_see_attractions", ""),
         food_preferences |-> Get(preferences, "food_preferences", "")]

\* lines 290-386
RenderPage1(s, ev, f) ==
    LET travel_style == CapStyles(f.travel_style)
        warnings == IF Len(f.travel_style) > 3
                    THEN {"Please select a maximum of 3 travel styles. (warning)"}
                    ELSE {}
        error == ValidationError(f.country, f.city, f.start_date, f.end_date,
                                 travel_style)
    IN  IF ev # "save"
        THEN Ran(s, {"save"}, warnings, {}, NoError, FALSE, 0)
        ELSE IF error # NoError
        THEN Ran(s, {"save"}, warnings \cup {error}, {}, NoError, FALSE, 0)
        ELSE Ran([s EXCEPT !.travel_preferences = Preferences(f, travel_style),
                           !.page = 2],
                 {}, warnings, {}, NoError, TRUE, 0)

\* a generator that runs again when the stored plan no longer matches the
\* committed preferences
NeedsPlanWhenStale(s) ==
    \/ ~Truthy(s.travel_plan)
    \/ s.travel_plan.duration # s.travel_preferences.duration

\* line 407: the plan is generated when the session holds none
NeedsPlan(s) == ~Truthy(s.travel_plan)

\* lines 425-444
ShowPlan(s, ev, plan_calls, g) ==
    IF ev = "back_to_preferences"
    THEN Ran([s EXCEPT !.page = 1], {}, {}, plan_calls, NoError, TRUE, g)
    ELSE IF ev = "download_travel_plan"
    THEN Ran([s EXCEPT !.page = 3], {}, {}, plan_calls, NoError, TRUE, g)
    ELSE Ran(s, {"back_to_preferences", "download_travel_plan"}, {},
             plan_calls, NoError, FALSE, g)

\* lines 410-422
GeneratePlan(mbti_type, preferences, backend) ==
    create_detailed_travel_plan(
        mbti_type, preferences.city, preferences.country,
        preferences.duration, preferences.num_travelers,
        preferences.budget, preferences.travel_style,
        preferences.accommodation_type,
        Get(preferences, "must_see_attractions", ""),
        Get(preferences, "food_preferences", ""), backend)

\* a plan page that reads the preferences with defaults and generates anyway
RenderPage2Unguarded(s, ev, backend) ==
    IF "city" \notin DOMAIN s.travel_preferences
    THEN ShowPlan([s EXCEPT !.travel_plan =
                        create_detailed_travel_plan(s.mbti, "", "", 1, 1, "Moderate",
                            DefaultStyle, "Any", "", "", backend)],
                  ev, {"create_detailed_travel_plan", "generate_text"}, 1)
    ELSE IF NeedsPlan(s)
    THEN ShowPlan([s EXCEPT !.travel_plan =
                        GeneratePlan(s.mbti, s.travel_preferences, backend)],
                  ev, {"create_detailed_travel_plan", "generate_text"}, 1)
    ELSE ShowPlan(s, ev, {}, 0)

\* lines 388-444
RenderPage2(s, ev, backend) ==
    IF "city" \notin DOMAIN s.travel_preferences
    THEN Ran(s, {}, {}, {}, "KeyError", FALSE, 0)
    ELSE IF NeedsPlan(s)
    THEN ShowPlan([s EXCEPT !.travel_plan =
                        GeneratePlan(s.mbti, s.travel_preferences, backend)],
                  ev, {"create_detailed_travel_plan", "generate_text"}, 1)
    ELSE ShowPlan(s, ev, {}, 0)

\* a redirect that lands on the preferences page
GeneratorPageOff == 2 - 1

\* line 456: where "Go to Travel Plan Generator" sends the user
GeneratorPage == 2

\* an export page that generates the plan the session lacks
RenderPage3Generating(s, ev) ==
    IF "city" \notin DOMAIN s.travel_preferences
    THEN Ran(s, {"go_to_generator"}, {}, {}, NoError, FALSE, 0)
    ELSE Ran([s EXCEPT !.travel_plan =
                    GeneratePlan(s.mbti, s.travel_preferences, Completion(<<None>>))],
             {"generate_pdf", "download_markdown", "download_html", "download_word"},
             {}, {"create_detailed_travel_plan", "generate_text"}, NoError, FALSE,
             IF Truthy(s.travel_plan) THEN 0 ELSE 1)

\* lines 446-529
RenderPage3(s, ev) ==
    IF ~Truthy(s.travel_plan)
    THEN IF ev = "go_to_generator"
         THEN Ran([s EXCEPT !.page = GeneratorPage], {},
                  {"Please complete the Travel Plan Generator step first."},
                  {}, NoError, TRUE, 0)
         ELSE Ran(s, {"go_to_generator"},
                  {"Please complete the Travel Plan Generator step first."},
                  {}, NoError, FALSE, 0)
    ELSE IF "city" \notin DOMAIN s.travel_preferences
    THEN Ran(s, {}, {}, {}, "KeyError", FALSE, 0)
    ELSE Ran(s,
             {"generate_pdf", "download_markdown", "download_html", "download_word"}
                \cup (IF ev = "generate_pdf" THEN {"download_pdf"} ELSE {}),
             {}, {}, NoError, FALSE, 0)

\* line 465: the title page 3 shows for the plan
PlanTitle(plan) ==
    IF "title" \in DOMAIN plan THEN plan.title ELSE "Your Personalized Itinerary"

\* lines 498-503: the st.download_button drawn under "Generate Travel Plan PDF"
DownloadPdf(s) ==
    [label |-> "Download PDF",
     data |-> s.travel_plan.plan_markdown,
     file_name |-> s.travel_preferences.city \o "_" \o s.travel_preferences.country
                        \o "_travel_plan.pdf",
     mime |-> "application/pdf"]

\* lines 514-519: the st.download_button "Download as Markdown"
DownloadMarkdown(s) ==
    [label |-> "Download as Markdown",
     data |-> s.travel_plan.plan_markdown,
     file_name |-> s.travel_preferences.city \o "_travel_plan.md",
     mime |-> "text/markdown"]

\* the downloads behind the buttons b that a run of page 3 drew; "Download
\* as HTML" and "Download as Word Document" are plain buttons that show a note
Downloads(s, b) ==
    (IF "download_pdf" \in b THEN {DownloadPdf(s)} ELSE {})
    \cup (IF "download_markdown" \in b THEN {DownloadMarkdown(s)} ELSE {})

\* the values a run reads from outside the session state
Inputs(file, f, classify, planner) ==
    [file |-> file, form |-> f, classify |-> classify, planner |-> planner]

\* lines 173-529: the if/elif chain over the page index has no else branch
Body(s, ev, in) ==
    CASE s.page = 0 -> RenderPage0(s, ev, in.file, in.classify)
      [] s.page = 1 ->
            RenderPage1(s, ev, IF ev = "save" THEN in.form ELSE DefaultForm(s))
      [] s.page = 2 -> RenderPage2(s, ev, in.planner)
      [] s.page = 3 -> RenderPage3(s, ev)
      [] OTHER -> Ran(s, {}, {}, {}, NoError, FALSE, 0)

\* lines 140-529: the sidebar, then the body of the current page
Script(s, ev, in) == Body(Sidebar(s, ev), ev, in)

\* what a step leaves when st.rerun() ended its first run
Merged(first, second) ==
    Ran(second.s, second.buttons, first.messages \cup second.messages,
        first.calls \cup second.calls, second.exception, FALSE,
        first.generated + second.generated)

Rerun(first, in) ==
    IF ~first.rerun THEN first
    ELSE Merged(first, Script(first.s, "rerun", in))

\* a run, and the run st.rerun() starts from the state the first one left
Handle(s, ev, in) == Rerun(Script(s, ev, in), in)

(***************************************************************************)
(* What the remote endpoint may do in a step of the wizard.                *)
(***************************************************************************)
IntjScores ==
    [E |-> 20, I |-> 80, N |-> 70, S |-> 30, F |-> 10, T |-> 90, J |-> 100, P |-> 0]

\* the endpoint fails, answers in full, or answers with one score only
ClassifyBackends ==
    {ApiError("APIConnectionError"),
     Completion(<<Json(JsonObject([mbti_type |-> Str("INTJ"), scores |-> IntjScores]))>>),
     Completion(<<Json(JsonObject([mbti_type |-> Str("INTJ"), scores |-> [E |-> 20]]))>>)}

Itinerary == Str("# Day 1: arrive and walk the old town")

PlanBackends ==
    {Completion(<<Itinerary>>), Completion(<<None>>), ApiError("APIConnectionError")}

(***************************************************************************)
(* The wizard: the state after the first run of a new session, and one     *)
(* action per control a user can activate.                                 *)
(***************************************************************************)
EmptyDict == [x \in {} |-> x]

\* lines 140-153
NewSession ==
    [page |-> 0, twitter_data |-> None, mbti |-> None, mbti_scores |-> None,
     travel_preferences |-> EmptyDict, travel_plan |-> None]

Apply(r, ev, file, f) ==
    /\ page' = r.s.page
    /\ twitter_data' = r.s.twitter_data
    /\ mbti' = r.s.mbti
    /\ mbti_scores' = r.s.mbti_scores
    /\ travel_preferences' = r.s.travel_preferences
    /\ travel_plan' = r.s.travel_plan
    /\ uploaded_file' = (IF r.s.page = 0 THEN file ELSE None)
    /\ event' = ev
    /\ form' = f
    /\ buttons' = r.buttons
    /\ messages' = r.messages
    /\ calls' = r.calls
    /\ exception' = r.exception
    /\ generated' = Min(generated + r.generated, MaxGenerated)

\* lines 207-215: the card with the result of the classification, drawn by
\* a run of page 0 that read a file with the required columns.  A step that
\* ends on another page clears the screen; after "Proceed to Travel
\* Preferences" the variable keeps the card the user left behind on page 0.
Displayed(r, ev, file, classify) ==
    IF r.s.page = 0
    THEN IF "analyze_mbti" \in r.calls
         THEN analyze_twitter_data(DataFrame(file), classify).value
         ELSE None
    ELSE IF ev = "proceed_to_preferences" THEN displayed
    ELSE None

Step(r, ev, file, f, classify) ==
    /\ Apply(r, ev, file, f)
    /\ displayed' = Displayed(r, ev, file, classify)

Click(ev, file, f, classify, planner) ==
    /\ Step(Handle(Session, ev, Inputs(file, f, classify, planner)),
            ev, file, f, classify)
    /\ UNCHANGED <<text_call, mbti_call, plan_call>>

Started(r) ==
    /\ page = r.s.page
    /\ twitter_data = r.s.twitter_data
    /\ mbti = r.s.mbti
    /\ mbti_scores = r.s.mbti_scores
    /\ travel_preferences = r.s.travel_preferences
    /\ travel_plan = r.s.travel_plan
    /\ uploaded_file = None
    /\ event = "start"
    /\ form = None
    /\ buttons = r.buttons
    /\ messages = r.messages
    /\ calls = r.calls
    /\ exception = r.exception
    /\ generated = 0
    /\ text_call = None
    /\ mbti_call = None
    /\ plan_call = None
    /\ displayed = None

\* the first run of a new session
Init ==
    Started(Handle(NewSession, "start",
                   Inputs(None, None, ApiError("APIConnectionError"),
                          ApiError("APIConnectionError"))))

\* the endpoint answers only when it is asked: the classifier when a file
\* is read, the planner when the session holds no plan
Asked(B, asked) == IF asked THEN B ELSE {CHOOSE b \in B : TRUE}

Act(ev, file, f, C, P) ==
    \E c \in Asked(C, file # None), p \in Asked(P, NeedsPlan(Session)) :
        Click(ev, file, f, c, p)

\* a sidebar button; the sidebar is drawn before the page body in every run
ClickNav(C, P) ==
    \E ev \in NavButtons : Act(ev, uploaded_file, None, C, P)

\* the file uploader of page 0
Upload(U, C, P) ==
    /\ page = 0
    /\ \E file \in U \ {uploaded_file} : Act("upload", file, None, C, P)

RemoveFile(C, P) ==
    /\ page = 0
    /\ uploaded_file # None
    /\ Act("remove_file", None, None, C, P)

ClickUseSample(C, P) ==
    /\ "use_sample" \in buttons
    /\ Act("use_sample", uploaded_file, None, C, P)

ClickProceedToPreferences(C, P) ==
    /\ "proceed_to_preferences" \in buttons
    /\ Act("proceed_to_preferences", uploaded_file, None, C, P)

ClickProceedFromSample(C, P) ==
    /\ "proceed_from_sample" \in buttons
    /\ Act("proceed_from_sample", uploaded_file, None, C, P)

ClickSave(F, C, P) ==
    /\ "save" \in buttons
    /\ \E f \in F : Act("save", None, f, C, P)

ClickBackToPreferences(C, P) ==
    /\ "back_to_preferences" \in buttons
    /\ Act("back_to_preferences", None, None, C, P)

ClickDownloadTravelPlan(C, P) ==
    /\ "download_travel_plan" \in buttons
    /\ Act("download_travel_plan", None, None, C, P)

ClickGoToGenerator(C, P) ==
    /\ "go_to_generator" \in buttons
    /\ Act("go_to_generator", None, None, C, P)

ExportButtons ==
    {"generate_pdf", "download_pdf", "download_markdown", "download_html",
     "download_word"}

ClickExport(C, P) ==
    \E ev \in ExportButtons \cap buttons : Act(ev, None, None, C, P)

Next ==
    \/ ClickNav(ClassifyBackends, PlanBackends)
    \/ Upload(UploadFiles, ClassifyBackends, PlanBackends)
    \/ RemoveFile(ClassifyBackends, PlanBackends)
    \/ ClickUseSample(ClassifyBackends, PlanBackends)
    \/ ClickProceedToPreferences(ClassifyBackends, PlanBackends)
    \/ ClickProceedFromSample(ClassifyBackends, PlanBackends)
    \/ ClickSave(BlankForms, ClassifyBackends, PlanBackends)
    \/ ClickBackToPreferences(ClassifyBackends, PlanBackends)
    \/ ClickDownloadTravelPlan(ClassifyBackends, PlanBackends)
    \/ ClickGoToGenerator(ClassifyBackends, PlanBackends)
    \/ ClickExport(ClassifyBackends, PlanBackends)

Spec == Init /\ [][Next]_vars

(***************************************************************************)
(* The preferences page with every form of Forms, the profile taken from   *)
(* the sample and the endpoint answering.                                  *)
(***************************************************************************)
Unreachable == {ApiError("APIConnectionError")}
Answering == {Completion(<<Itinerary>>)}

NextPrefs ==
    \/ ClickNav(Unreachable, Answering)
    \/ ClickUseSample(Unreachable, Answering)
    \/ ClickProceedFromSample(Unreachable, Answering)
    \/ ClickSave(Forms, Unreachable, Answering)
    \/ ClickBackToPreferences(Unreachable, Answering)
    \/ ClickDownloadTravelPlan(Unreachable, Answering)
    \/ ClickGoToGenerator(Unreachable, Answering)
    \/ ClickExport(Unreachable, Answering)

SpecPrefs == Init /\ [][NextPrefs]_vars

(***************************************************************************)
(* The upload of page 0 with every dataset of up to MaxRows rows, the      *)
(* counts of a row drawn from Favorites and Views; the endpoint is down.   *)
(***************************************************************************)
Favorites == {-1, 0, 3}
Views == {0, 5}
Texts == <<"beach", "museum", "hike", "market">>

Datasets ==
    UNION {{[i \in 1..n |-> Tweet(Texts[i], c[i][1], c[i][2])] :
                c \in [1..n -> Favorites \X Views]} :
           n \in 0..Min(MaxRows, Len(Texts))}
DatasetFiles == {[columns |-> RequiredColumns, rows |-> d] : d \in Datasets}

NextData ==
    \/ Upload(DatasetFiles, Unreachable, Answering)
    \/ RemoveFile(Unreachable, Answering)
    \/ ClickUseSample(Unreachable, Answering)
    \/ ClickProceedToPreferences(Unreachable, Answering)

SpecData == Init /\ [][NextData]_vars

(***************************************************************************)
(* GenAI.generate_text on its own: any prompt, instructions, model, output *)
(* type and temperature, against any behaviour of the endpoint.            *)
(***************************************************************************)
Prompts ==
    {"Describe the ENFP personality type in 1-2 sentences",
     "Write a short motivational paragraph", ""}
InstructionTexts == {DefaultInstructions, "You are a travel inspiration writer."}
Models == {DefaultModel, "gpt-4"}
OutputTypes == {"text", "json_object"}
Temperatures == {DefaultTemperature, 7, 0}

Backends ==
    {ApiError(e) : e \in ApiErrors}
    \cup {Completion(<<>>), Completion(<<None>>), Completion(<<Itinerary>>),
          Completion(<<Str("")>>), Completion(<<Apology>>)}

GenerateTextCalled ==
    /\ \E prompt \in Prompts, instructions \in InstructionTexts, model \in Models,
          output_type \in OutputTypes, temperature \in Temperatures,
          backend \in Backends :
            text_call' =
                [prompt |-> prompt, instructions |-> instructions, model |-> model,
                 output_type |-> output_type, temperature |-> temperature,
                 backend |-> backend,
                 result |-> generate_text(prompt, instructions, model, output_type,
                                          temperature, backend)]
    /\ UNCHANGED <<page, twitter_data, mbti, mbti_scores, travel_preferences,
                   travel_plan, uploaded_file, event, form, buttons, messages,
                   calls, exception, generated, mbti_call, plan_call, displayed>>

NextText == GenerateTextCalled

SpecText == Init /\ [][NextText]_vars

(***************************************************************************)
(* GenAI.analyze_mbti on its own, called through analyze_twitter_data:     *)
(* any dataset against any behaviour of the endpoint.  The endpoint        *)
(* raises, or answers with no choice, no content, text that is not JSON,   *)
(* JSON that is no object, or a JSON object with any of the keys           *)
(* mbti_type, scores and explanation, the scores for any of the letters.   *)
(***************************************************************************)
EmptyFrame == [columns |-> RequiredColumns \cup {"engagement"}, rows |-> <<>>]
TweetFrames == {DataFrame(TweetsCsv), EmptyFrame}

ScoreMaps ==
    {[l \in L |-> IntjScores[l]] :
        L \in {L \in SUBSET Letters : Cardinality(L) \in {0, 1, 7, 8}}}

Reply(scores) ==
    [mbti_type |-> Str("INTJ"), scores |-> scores,
     explanation |-> Str("plans ahead and travels alone")]
ReplyKeys == {"mbti_type", "scores", "explanation"}

JsonReplies ==
    {JsonObject([k \in K |-> Reply(m)[k]]) : K \in SUBSET ReplyKeys, m \in ScoreMaps}

NotJson == {Str(""), Str("The author is most likely an ENFP."), Apology}

MbtiBackends ==
    {ApiError(e) : e \in ApiErrors}
    \cup {Completion(<<>>), Completion(<<None>>),
          Completion(<<Json([array |-> <<>>])>>)}
    \cup {Completion(<<text>>) : text \in NotJson}
    \cup {Completion(<<Json(o)>>) : o \in JsonReplies}

\* the call, what it returned, and what the radar chart makes of the scores
MbtiCall(tweets_df, backend, result) ==
    [tweets_df |-> tweets_df, backend |-> backend, result |-> result,
     chart |-> IF result.raised THEN result
               ELSE generate_mbti_radar_chart(result.value.scores)]

AnalyzeTwitterDataCalled ==
    /\ \E tweets_df \in TweetFrames, backend \in MbtiBackends :
            mbti_call' = MbtiCall(tweets_df, backend,
                                  analyze_twitter_data(tweets_df, backend))
    /\ UNCHANGED <<page, twitter_data, mbti, mbti_scores, travel_preferences,
                   travel_plan, uploaded_file, event, form, buttons, messages,
                   calls, exception, generated, text_call, plan_call, displayed>>

NextMbti == AnalyzeTwitterDataCalled

SpecMbti == Init /\ [][NextMbti]_vars

(***************************************************************************)
(* GenAI.create_detailed_travel_plan on its own: any code, destination and *)
(* duration against any behaviour of the endpoint.                         *)
(***************************************************************************)
MbtiTypes == {Str("ENFP"), Str("INTJ"), None}
Destinations == {<<"Paris", "France">>, <<"Kyoto", "Japan">>}
Durations == {1, 5, 14}

PlanCall(mbti_type, city, country, duration, backend, result) ==
    [mbti_type |-> mbti_type, city |-> city, country |-> country,
     duration |-> duration, backend |-> backend, result |-> result]

CreateDetailedTravelPlanCalled ==
    /\ \E mbti_type \in MbtiTypes, to \in Destinations, duration \in Durations,
          backend \in Backends :
            plan_call' =
                PlanCall(mbti_type, to[1], to[2], duration, backend,
                         create_detailed_travel_plan(
                            mbti_type, to[1], to[2], duration, 1, "Moderate",
                            DefaultStyle, "Any", "", "", backend))
    /\ UNCHANGED <<page, twitter_data, mbti, mbti_scores, travel_preferences,
                   travel_plan, uploaded_file, event, form, buttons, messages,
                   calls, exception, generated, text_call, mbti_call, displayed>>

NextPlan == CreateDetailedTravelPlanCalled

SpecPlan == Init /\ [][NextPlan]_vars

(***************************************************************************)
(* Properties of the wizard (Spec).                                        *)
(***************************************************************************)

\* C1: generate-once.  Once the session holds a plan no step changes it,
\* whatever is saved on page 1, loaded on page 0 or rendered on page 2, and
\* the itinerary generator is invoked at most once in a session: it runs only
\* in a step that starts without a plan.
GenerateOnce ==
    [][/\ Truthy(travel_plan) =>
            /\ travel_plan' = travel_plan
            /\ generated' = generated
            /\ "create_detailed_travel_plan" \notin calls'
       /\ generated' <= 1]_vars

\* C1 witness: page 2 is rendered again with a plan that was generated for
\* another profile and other preferences than the session now holds.
StalePlanShown ==
    /\ page = 2
    /\ Truthy(travel_plan)
    /\ event = "save"
    /\ travel_plan.duration # travel_preferences.duration
    /\ travel_plan.mbti_type # mbti

\* C2 (as claimed): whenever the wizard is on page 2, and so whenever a plan
\* is generated, the session holds a personality profile and committed
\* preferences.
PlanPageHasProfileAndPreferences ==
    page = 2 => mbti # None /\ travel_preferences # EmptyDict

\* C3 (as claimed): from page 3 with no plan, every step that changes the
\* page sets it to 2.
ExportWithoutPlanOnlyLeadsToPlan ==
    [][page = 3 /\ ~Truthy(travel_plan) /\ page' # page => page' = 2]_vars

\* C3 (amended): on page 3 with no plan the page body offers one control,
\* "Go to Travel Plan Generator", and it sets the page to 2; the only other
\* steps that change the page are sidebar buttons, each of which sets the
\* page to the one it names.
ExportWithoutPlanBodyLeadsToPlan ==
    [][page = 3 /\ ~Truthy(travel_plan) =>
            /\ buttons = {"go_to_generator"}
            /\ event' = "go_to_generator" => page' = 2
            /\ page' # page =>
                \/ event' = "go_to_generator"
                \/ event' \in NavButtons /\ page' = NavIndex(event')]_vars

\* C3 witness: "Go to Travel Plan Generator" was activated, which page 3
\* draws only when the session holds no plan, and the wizard is on page 2.
WentToGenerator == event = "go_to_generator" /\ page = 2

\* the error page 0 shows for a file with these columns
MissingColumnsMessage(columns) ==
    CASE columns = {"text", "favorite_count"} ->
            "Missing required columns: view_count"
      [] columns = {"text", "lang"} ->
            "Missing required columns: favorite_count, view_count"

\* C17: a file without one of the columns text, favorite_count, view_count
\* is a validation error and no crash: the upload raises nothing, shows an
\* error that names the missing columns, makes no classification call and
\* leaves the stored dataset, the profile and the page as they were.  The
\* same holds for every later run that reads the file, but for the profile
\* when that run was started by the sample button.
MissingColumnsRefused ==
    [][(uploaded_file' # None /\ RequiredColumns \ uploaded_file'.columns # {}) =>
            /\ MissingColumnsMessage(uploaded_file'.columns) \in messages'
            /\ exception' = NoError
            /\ "analyze_mbti" \notin calls'
            /\ twitter_data' = twitter_data
            /\ page' = page
            /\ event' # "use_sample" => mbti' = mbti /\ mbti_scores' = mbti_scores]_vars

\* C17 witness: a file without view_count was uploaded over a dataset that
\* had been classified, and the dataset and the profile are still stored.
UploadWithoutViewsRefused ==
    /\ event = "upload"
    /\ uploaded_file # None
    /\ uploaded_file.columns = {"text", "favorite_count"}
    /\ twitter_data # None
    /\ mbti = Str("INTJ")
    /\ "Missing required columns: view_count" \in messages

\* C18: export never generates.  A step that ends on page 3, whether it
\* came there or stayed there, invokes neither the itinerary generator nor
\* any other method of the AI client and leaves the stored plan, preferences
\* and profile as they were; the export and download controls of page 3
\* keep the wizard on page 3.
ExportNeverGenerates ==
    [][/\ page' = 3 =>
            /\ calls' = {}
            /\ generated' = generated
            /\ travel_plan' = travel_plan
            /\ travel_preferences' = travel_preferences
            /\ mbti' = mbti /\ mbti_scores' = mbti_scores
       /\ (page = 3 /\ event' \in ExportButtons) => page' = 3]_vars

\* C18 witness: "Generate Travel Plan PDF" was activated on page 3 and the
\* download of the stored plan is offered.
PdfGenerated ==
    /\ page = 3
    /\ event = "generate_pdf"
    /\ Truthy(travel_plan)
    /\ "download_pdf" \in buttons

\* C19: a new session starts on page 0 with no dataset, no profile, empty
\* preferences and no plan, and the page index is one of 0, 1, 2, 3 in every
\* state the wizard reaches.
StartsEmptyAndPageInRange ==
    /\ page = 0
    /\ twitter_data = None
    /\ mbti = None /\ mbti_scores = None
    /\ travel_preferences = [x \in {} |-> x]
    /\ travel_plan = None
    /\ [](page \in {0, 1, 2, 3})

\* C19 witness: the last page was opened from the sidebar in a session that
\* holds nothing yet.
ExportOpenedFirst ==
    /\ page = 3
    /\ event = "nav_3"
    /\ twitter_data = None /\ mbti = None
    /\ travel_preferences = EmptyDict /\ travel_plan = None

\* C20 (as claimed): on page 0, once "Use Sample Data Instead" has loaded
\* the sample profile, activating the "Proceed to Travel Preferences" button
\* drawn under it moves the wizard to page 1 with the sample profile stored.
ProceedFromSampleAdvances ==
    [][event' = "proceed_from_sample" =>
            /\ page' = 1
            /\ mbti' = [str |-> "ENFP"]
            /\ mbti_scores' = [E |-> 75, I |-> 25, N |-> 80, S |-> 20,
                               F |-> 65, T |-> 35, P |-> 70, J |-> 30]]_vars

(***************************************************************************)
(* Properties of the preferences page (SpecPrefs).                         *)
(***************************************************************************)
ValidationErrors ==
    {"Please enter both country and city.",
     "Please select both start and end dates.",
     "End date must be after start date.",
     "Please select a maximum of 3 travel styles."}

\* a form whose required fields are filled, start before end
Acceptable(f) ==
    /\ f.country # "" /\ f.city # ""
    /\ f.start_date # None /\ f.end_date # None
    /\ Earlier(f.start_date, f.end_date)

FirstThree(seq) == [i \in 1..Min(3, Len(seq)) |-> seq[i]]

\* C4: a Save with an empty country or city, a missing date, or start >= end
\* raises nothing, shows an inline error and leaves the session as it was:
\* the page stays 1 and preferences, plan and profile are untouched.
InvalidSaveHoldsPosition ==
    [][event' = "save" /\ ~Acceptable(form') =>
            /\ page = 1 /\ page' = 1
            /\ travel_preferences' = travel_preferences
            /\ travel_plan' = travel_plan
            /\ mbti' = mbti /\ mbti_scores' = mbti_scores
            /\ twitter_data' = twitter_data
            /\ exception' = NoError
            /\ messages' \cap ValidationErrors # {}
            /\ "save" \in buttons']_vars

\* C4 witness: a Save was refused in a session that already holds committed
\* preferences and a plan.
RefusedSaveKeepsPlan ==
    /\ event = "save" /\ ~Acceptable(form)
    /\ page = 1
    /\ Truthy(travel_preferences) /\ Truthy(travel_plan)

\* C5 (as claimed): a Save with the required fields filled and start < end
\* stores exactly the values entered in the form and sets the page to 2.
ValidSaveStoresFormAsEntered ==
    [][event' = "save" /\ Acceptable(form') =>
            /\ page' = 2
            /\ \A k \in DOMAIN form' : travel_preferences'[k] = form'[k]]_vars

\* C5 (amended): such a Save replaces the stored preferences by the values
\* entered in the form, the travel styles cut to the first three selected,
\* together with the budget symbol and the duration, and sets the page to 2
\* in the same step.
ValidSaveStoresForm ==
    [][event' = "save" /\ Acceptable(form') =>
            /\ page = 1 /\ page' = 2
            /\ DOMAIN travel_preferences' =
                    DOMAIN form' \cup {"budget_level", "duration"}
            /\ \A k \in DOMAIN form' \ {"travel_style"} :
                    travel_preferences'[k] = form'[k]
            /\ travel_preferences'.travel_style = FirstThree(form'.travel_style)]_vars

\* C5 witness: a Save replaced earlier preferences with a form in which four
\* tags were selected.
SavedOverEarlierPreferences ==
    /\ event = "save" /\ Acceptable(form) /\ page = 2
    /\ Len(form.travel_style) > 3
    /\ Truthy(travel_plan)
    /\ travel_plan.duration # travel_preferences.duration

\* C6: the stored preferences are the initial empty mapping, or have a
\* non-empty country and city, both dates with start strictly before end,
\* and between 1 and 10 travelers.
CommittedPreferencesValid ==
    \/ travel_preferences = EmptyDict
    \/ /\ travel_preferences.country # ""
       /\ travel_preferences.city # ""
       /\ travel_preferences.start_date # None
       /\ travel_preferences.end_date # None
       /\ Earlier(travel_preferences.start_date, travel_preferences.end_date)
       /\ travel_preferences.num_travelers \in 1..10

\* C6 witness: preferences for ten travelers are committed.
TenTravelersCommitted ==
    Truthy(travel_preferences) /\ travel_preferences.num_travelers = 10

\* the calendar day after d, and the days walked from a to b
DayAfter(d) ==
    IF d.d < DaysInMonth(d.y, d.m) THEN Date(d.y, d.m, d.d + 1)
    ELSE IF d.m < 12 THEN Date(d.y, d.m + 1, 1)
    ELSE Date(d.y + 1, 1, 1)

RECURSIVE DaysWalked(_, _)
DaysWalked(a, b) == IF a = b THEN 0 ELSE 1 + DaysWalked(DayAfter(a), b)

\* C7: the committed duration counts both endpoints: it is the number of
\* days from start to end plus 1, so 2024-03-01 to 2024-03-05 gives 5, and
\* it is never below 1.
DurationInclusive ==
    Truthy(travel_preferences) =>
        /\ travel_preferences.duration =
              DaysWalked(travel_preferences.start_date, travel_preferences.end_date) + 1
        /\ travel_preferences.duration >= 1
        /\ (/\ travel_preferences.start_date = Date(2024, 3, 1)
            /\ travel_preferences.end_date = Date(2024, 3, 5))
                => travel_preferences.duration = 5

\* C7 witness: a trip from 2024-03-01 to 2024-03-05 is committed.
MarchTripCommitted ==
    /\ Truthy(travel_preferences)
    /\ travel_preferences.start_date = Date(2024, 3, 1)
    /\ travel_preferences.end_date = Date(2024, 3, 5)

\* C8: a selection of more than three style tags is no validation error:
\* the Save goes through with a warning and commits the first three tags in
\* selection order, and the committed travel_style never has more than three.
StylesCappedAtThree ==
    [][/\ (event' = "save" /\ Acceptable(form') /\ Len(form'.travel_style) > 3) =>
            /\ page' = 2
            /\ messages' \cap ValidationErrors = {}
            /\ "Please select a maximum of 3 travel styles. (warning)" \in messages'
            /\ travel_preferences'.travel_style =
                    <<form'.travel_style[1], form'.travel_style[2],
                      form'.travel_style[3]>>
       /\ Truthy(travel_preferences') => Len(travel_preferences'.travel_style) <= 3]_vars

\* C8 witness: a Save with four tags selected went through.
FourTagsSaved ==
    /\ event = "save" /\ page = 2
    /\ Len(form.travel_style) = 4
    /\ Len(travel_preferences.travel_style) = 3

\* C9: the committed budget is one of the four tiers and the committed
\* budget_level is the symbol of that tier.
BudgetSymbolOfTier ==
    Truthy(travel_preferences) =>
        \/ travel_preferences.budget = "Budget"
            /\ travel_preferences.budget_level = "$"
        \/ travel_preferences.budget = "Moderate"
            /\ travel_preferences.budget_level = "$$"
        \/ travel_preferences.budget = "Luxury"
            /\ travel_preferences.budget_level = "$$$"
        \/ travel_preferences.budget = "Ultra-Luxury"
            /\ travel_preferences.budget_level = "$$$$"

\* C9 witness: preferences with the Luxury tier are committed.
LuxuryCommitted ==
    /\ Truthy(travel_preferences)
    /\ travel_preferences.budget = "Luxury"
    /\ travel_preferences.budget_level = "$$$"

(***************************************************************************)
(* Properties of GenAI.generate_text (SpecText).                           *)
(***************************************************************************)
\* the endpoint raised, or its completion carries no choice to read
CallFails(backend) ==
    backend.kind = "error" \/ backend.choices = <<>>

\* C10: generate_text never propagates a failure: when the remote call or
\* the extraction of the response fails, it returns the one apology string,
\* whatever the prompt, instructions, model, output type and temperature.
FailureGivesApology ==
    (text_call # None /\ CallFails(text_call.backend)) =>
        /\ ~text_call.result.raised
        /\ text_call.result.value =
              [str |-> "Sorry, I couldn't generate a response at the moment."]

\* C10 witness: a completion without choices was answered with the apology.
EmptyCompletionAnswered ==
    /\ text_call # None
    /\ text_call.backend = Completion(<<>>)
    /\ text_call.output_type = "json_object"
    /\ ~text_call.result.raised

(***************************************************************************)
(* Properties of GenAI.analyze_mbti (SpecMbti).                            *)
(***************************************************************************)
\* the endpoint raised, or what it answered is not JSON text
Unparseable(backend) ==
    \/ backend.kind = "error"
    \/ backend.choices = <<>>
    \/ backend.choices # <<>> /\ "str" \in DOMAIN backend.choices[1]

\* C11: classification fallback.  When the endpoint is unreachable, rejects
\* the request or answers with text that is not JSON, analyze_mbti, and so
\* analyze_twitter_data, raises nothing and returns the code "ENFP" with the
\* scores E 60, I 40, N 70, S 30, F 65, T 35, J 45, P 55: one value for all
\* of these failures.
ClassificationFallback ==
    (mbti_call # None /\ Unparseable(mbti_call.backend)) =>
        /\ ~mbti_call.result.raised
        /\ mbti_call.result.value =
              [mbti_type |-> [str |-> "ENFP"],
               scores |-> [E |-> 60, I |-> 40, N |-> 70, S |-> 30,
                           F |-> 65, T |-> 35, J |-> 45, P |-> 55]]

\* C11 witness: the endpoint answered a dataset of tweets with prose, and the
\* call returned a profile.
ProseAnswered ==
    /\ mbti_call # None
    /\ mbti_call.tweets_df.rows # <<>>
    /\ mbti_call.backend = Completion(<<Str("The author is most likely an ENFP.")>>)
    /\ ~mbti_call.result.raised

\* the endpoint answered with a JSON object, and the object it answered with
AnswersObject(backend) ==
    /\ backend.kind = "completion" /\ backend.choices # <<>>
    /\ "json" \in DOMAIN backend.choices[1]
    /\ IsDict(backend.choices[1].json)
ObjectOf(backend) == backend.choices[1].json.object

LacksKey(backend) ==
    /\ AnswersObject(backend)
    /\ {"mbti_type", "scores"} \ DOMAIN ObjectOf(backend) # {}

\* C12 (as claimed): when the endpoint answers with a JSON object that lacks
\* the key mbti_type or the key scores, analyze_mbti returns the fallback
\* profile, the value it returns for a network failure or malformed JSON.
MissingKeysGiveFallback ==
    (mbti_call # None /\ LacksKey(mbti_call.backend)) =>
        /\ ~mbti_call.result.raised
        /\ mbti_call.result.value =
              [mbti_type |-> FallbackType, scores |-> FallbackScores]

\* C12 (amended): for such an object analyze_mbti raises nothing and fills
\* in each missing key on its own: a missing mbti_type becomes "ENFP",
\* missing scores become 50 for each of the eight letters, and the key that
\* is present is returned as received.
MissingKeysGiveDefaults ==
    (mbti_call # None /\ LacksKey(mbti_call.backend)) =>
        /\ ~mbti_call.result.raised
        /\ mbti_call.result.value.mbti_type =
              (IF "mbti_type" \in DOMAIN ObjectOf(mbti_call.backend)
               THEN ObjectOf(mbti_call.backend).mbti_type
               ELSE [str |-> "ENFP"])
        /\ mbti_call.result.value.scores =
              (IF "scores" \in DOMAIN ObjectOf(mbti_call.backend)
               THEN ObjectOf(mbti_call.backend).scores
               ELSE [E |-> 50, I |-> 50, N |-> 50, S |-> 50,
                     F |-> 50, T |-> 50, J |-> 50, P |-> 50])

\* C12 witness: the endpoint answered with an object that has the code but
\* no scores, and the call returned that code with the scores all 50.
CodeWithoutScoresAnswered ==
    /\ mbti_call # None
    /\ AnswersObject(mbti_call.backend)
    /\ DOMAIN ObjectOf(mbti_call.backend) = {"mbti_type", "explanation"}
    /\ mbti_call.result.value.mbti_type = Str("INTJ")
    /\ mbti_call.result.value.scores["E"] = 50

\* C13 (as claimed): for every answer that parses as a JSON object, the
\* scores analyze_mbti returns have all eight letters, each letter absent
\* from the answer's scores set to 50, and the radar chart drawn from them
\* does not fail on a missing key.
ScoresHaveAllLetters ==
    (mbti_call # None /\ AnswersObject(mbti_call.backend)) =>
        /\ ~mbti_call.result.raised
        /\ DOMAIN mbti_call.result.value.scores =
              {"E", "I", "N", "S", "F", "T", "J", "P"}
        /\ \A l \in DOMAIN mbti_call.result.value.scores :
              mbti_call.result.value.scores[l] =
                Get(Get(ObjectOf(mbti_call.backend), "scores", EmptyDict), l, 50)
        /\ ~mbti_call.chart.raised

(***************************************************************************)
(* Properties of GenAI.create_detailed_travel_plan (SpecPlan).             *)
(***************************************************************************)
\* C14 (as claimed): when the endpoint fails during
\* create_detailed_travel_plan, the plain-text rendering of the plan that is
\* returned is the fallback plan body, written from the code, the city and
\* the country only, and the markup rendering is derived from that body.
ItineraryFallback ==
    (plan_call # None /\ CallFails(plan_call.backend)) =>
        /\ plan_call.result.plan_markdown =
              FallbackPlan(plan_call.mbti_type, plan_call.city, plan_call.country)
        /\ plan_call.result.plan_html =
              [html_of |-> FallbackPlan(plan_call.mbti_type, plan_call.city,
                                        plan_call.country)]

(***************************************************************************)
(* Properties of the upload of page 0 (SpecData).                          *)
(***************************************************************************)
\* the rows of a dataset for which favorites divided by views is defined
RECURSIVE WithDefinedRatio(_)
WithDefinedRatio(rows) ==
    IF rows = <<>> THEN <<>>
    ELSE (IF Head(rows).view_count # 0 THEN <<Head(rows)>> ELSE <<>>)
            \o WithDefinedRatio(Tail(rows))

WithoutEngagement(r) == Tweet(r.text, r.favorite_count, r.view_count)

\* C15: dataset cleaning.  For an uploaded dataset with the required
\* columns, the dataset stored in the session is, in the order of the file,
\* the rows for which favorite_count / view_count is defined and finite,
\* each with that ratio as its engagement; no row with view_count = 0 is
\* kept and the stored dataset is no longer than the one uploaded.
DatasetCleaned ==
    (uploaded_file # None /\ RequiredColumns \subseteq uploaded_file.columns) =>
        /\ twitter_data # None
        /\ [i \in 1..Len(twitter_data.rows) |->
                WithoutEngagement(twitter_data.rows[i])]
              = WithDefinedRatio(uploaded_file.rows)
        /\ \A i \in 1..Len(twitter_data.rows) :
              /\ twitter_data.rows[i].view_count # 0
              /\ twitter_data.rows[i].engagement =
                    [num |-> twitter_data.rows[i].favorite_count,
                     den |-> twitter_data.rows[i].view_count]
        /\ Len(twitter_data.rows) <= Len(uploaded_file.rows)

\* C15 witness: a file of two rows was uploaded, the first liked but never
\* viewed, and the second row alone is stored.
UnviewedRowDropped ==
    /\ event = "upload"
    /\ uploaded_file # None
    /\ Len(uploaded_file.rows) = 2
    /\ uploaded_file.rows[1].view_count = 0
    /\ uploaded_file.rows[1].favorite_count > 0
    /\ Len(twitter_data.rows) = 1
    /\ twitter_data.rows[1].text = "museum"

\* C16 (as claimed): every row of the stored dataset has an engagement that
\* is finite and not negative, whatever integers the favorite and view
\* counts of the uploaded rows are.
RetainedEngagementNonNegative ==
    twitter_data # None =>
        \A i \in 1..Len(twitter_data.rows) :
            /\ "num" \in DOMAIN twitter_data.rows[i].engagement
            /\ twitter_data.rows[i].engagement.den # 0
            /\ twitter_data.rows[i].engagement.num
                    * twitter_data.rows[i].engagement.den >= 0

(***************************************************************************)
(* Further properties of the wizard (Spec).                                *)
(***************************************************************************)
\* the controls that assign st.session_state.page
NavigationControls ==
    {"nav_0", "nav_1", "nav_2", "nav_3", "proceed_to_preferences",
     "proceed_from_sample", "save", "back_to_preferences",
     "download_travel_plan", "go_to_generator"}

\* C21: the page index changes only in a step in which the user activated a
\* navigation control: a sidebar button, Proceed, Save Preferences, Back to
\* Preferences, Download Travel Plan or Go to Travel Plan Generator.  A file
\* upload or removal, the sample button, the export buttons, a validation
\* error, and a step that called the endpoint or generated the plan without
\* such a control, leave the page index as it was.
PageChangesOnlyByNavigation ==
    [][/\ page' # page => event' \in NavigationControls
       /\ event' \in {"upload", "remove_file", "use_sample"} \cup ExportButtons
            => page' = page
       /\ messages' \cap ValidationErrors # {} => page' = page
       /\ (calls' # {} /\ event' \notin NavigationControls) => page' = page]_vars

\* C21 witness: a dataset was uploaded and classified, the endpoint was
\* called, and the wizard is still on page 0.
ClassifiedOnHome ==
    /\ event = "upload"
    /\ page = 0
    /\ "analyze_mbti" \in calls
    /\ "proceed_to_preferences" \in buttons

\* the pages on which a step of ClickNav, which has no guard, can end
PagesBySidebar ==
    {Handle(Session, ev, Inputs(uploaded_file, None, c, p)).s.page :
        ev \in NavButtons, c \in ClassifyBackends, p \in PlanBackends}

\* C22: no terminal state.  In every state the wizard reaches, whatever the
\* session holds and also after the render of a page failed, a sidebar
\* button is enabled whose step changes the page index, and on page 3 one is
\* enabled whose step ends on page 2.
NoTerminalState ==
    /\ PagesBySidebar \ {page} # {}
    /\ page = 3 => 2 \in PagesBySidebar

\* C22 witness: the render of page 2 failed on the empty preferences and
\* drew no button in the page.
PlanPageFailed ==
    /\ page = 2
    /\ exception = "KeyError"
    /\ buttons = {}
    /\ travel_preferences = EmptyDict

\* the codes of four letters, one from each of E/I, N/S, T/F and J/P
WellFormedCodes ==
    {Str(a \o b \o c \o d) :
        a \in {"E", "I"}, b \in {"N", "S"}, c \in {"T", "F"}, d \in {"J", "P"}}

\* C23 (as claimed): whenever a profile is stored, its code is one of the
\* sixteen four-letter codes and its score map gives each of the eight
\* letters an integer from 0 to 100, whatever the endpoint answered.
StoredProfileWellFormed ==
    mbti # None =>
        /\ mbti \in WellFormedCodes
        /\ DOMAIN mbti_scores = {"E", "I", "N", "S", "F", "T", "J", "P"}
        /\ \A l \in DOMAIN mbti_scores : mbti_scores[l] \in 0..100

\* C24 (as claimed): every download offered on page 3 delivers the
\* plain-text rendering of the stored plan under a plain-text or markdown
\* content type, and none is offered under another content type.
DownloadsArePlainText ==
    page = 3 =>
        \A d \in Downloads(Session, buttons) :
            /\ d.data = travel_plan.plan_markdown
            /\ d.mime \in {"text/plain", "text/markdown"}

\* C25 (as claimed): every stored plan holds the personality code, the
\* destination label, a title, and the itinerary in two renderings, the
\* markup rendering derived from the text of the plain-text rendering.
PlanHoldsTitle ==
    Truthy(travel_plan) =>
        /\ {"mbti_type", "destination", "title", "plan_markdown", "plan_html"}
                \subseteq DOMAIN travel_plan
        /\ travel_plan.plan_html = [html_of |-> travel_plan.plan_markdown]

\* C25 (amended): every stored plan holds the keys mbti_type, destination,
\* duration, plan_markdown and plan_html and no title, for which page 3 shows
\* "Your Personalized Itinerary"; plan_html is derived from the text of
\* plan_markdown; and in the step that generates it, mbti_type is the code
\* the session holds, None included, and destination and duration are
\* "<city>, <country>" and the duration of the stored preferences.
PlanShape ==
    [][/\ Truthy(travel_plan') =>
            /\ DOMAIN travel_plan' =
                  {"mbti_type", "destination", "duration", "plan_markdown", "plan_html"}
            /\ travel_plan'.plan_html = [html_of |-> travel_plan'.plan_markdown]
            /\ PlanTitle(travel_plan') = "Your Personalized Itinerary"
       /\ "create_detailed_travel_plan" \in calls' =>
            /\ travel_plan'.mbti_type = mbti'
            /\ travel_plan'.destination =
                  travel_preferences'.city \o ", " \o travel_preferences'.country
            /\ travel_plan'.duration = travel_preferences'.duration]_vars

\* C25 witness: a plan was generated from the endpoint's itinerary for a
\* classified profile and a trip to Paris.
ItineraryStored ==
    /\ "create_detailed_travel_plan" \in calls
    /\ Truthy(travel_plan)
    /\ travel_plan.mbti_type = Str("INTJ")
    /\ travel_plan.destination = "Paris, France"
    /\ travel_plan.plan_markdown = Itinerary

\* C26: a stored plan implies committed preferences.  Whenever the session
\* holds a plan, the stored preferences hold city, country, start_date,
\* end_date and duration; the render of page 2 with empty preferences fails
\* before the generator is reached and stores no plan; and the render of
\* page 3 with a plan does not fail.
PlanImpliesPreferences ==
    /\ Truthy(travel_plan) =>
            /\ travel_preferences # [x \in {} |-> x]
            /\ {"city", "country", "start_date", "end_date", "duration"}
                    \subseteq DOMAIN travel_preferences
            /\ page = 3 => exception = NoError
    /\ (page = 2 /\ travel_preferences = [x \in {} |-> x]) =>
            /\ exception = "KeyError"
            /\ "create_detailed_travel_plan" \notin calls
            /\ travel_plan = None

\* C26 witness: page 3 was opened from page 2 with the plan stored, and its
\* summary of the trip was drawn.
ExportOpenedWithPlan ==
    /\ page = 3
    /\ event = "download_travel_plan"
    /\ Truthy(travel_plan)
    /\ "download_markdown" \in buttons
    /\ exception = NoError

\* the controls whose activation on page 0 renders page 0
HomeControls ==
    {"nav_0", "upload", "use_sample", "proceed_to_preferences",
     "proceed_from_sample"}

\* what analyze_twitter_data may return for the dataset of a file
Classifications(file) ==
    {analyze_twitter_data(DataFrame(file), c).value : c \in ClassifyBackends}

HasRequiredColumns(file) ==
    file # None /\ RequiredColumns \subseteq file.columns

\* C27: the profile is not cached.  Every step that renders page 0 while
\* the uploader holds a file with the required columns calls the
\* classification again and stores the cleaned dataset and the code and
\* scores it returned over what the session held, the sample button alone
\* storing the sample profile after it.  "Proceed to Travel Preferences" is
\* such a step: it classifies again and then either moves to page 1 with the
\* profile of that call stored, or stays on page 0 with an error.
ProfileNotCached ==
    [][/\ (/\ page = 0 /\ event' \in HomeControls \ {"upload"}
            /\ HasRequiredColumns(uploaded_file)) =>
                /\ "analyze_mbti" \in calls'
                /\ twitter_data' = DataFrame(uploaded_file)
                /\ event' # "use_sample" =>
                    [mbti_type |-> mbti', scores |-> mbti_scores']
                        \in Classifications(uploaded_file)
       /\ (event' = "upload" /\ HasRequiredColumns(uploaded_file')) =>
                /\ "analyze_mbti" \in calls'
                /\ twitter_data' = DataFrame(uploaded_file')
                /\ [mbti_type |-> mbti', scores |-> mbti_scores']
                        \in Classifications(uploaded_file')
                /\ displayed' = [mbti_type |-> mbti', scores |-> mbti_scores']
       /\ event' = "proceed_to_preferences" =>
                /\ "analyze_mbti" \in calls'
                /\ page' = 1 \/ (page' = 0 /\ "Error analyzing the data" \in messages')
                /\ page' = 1 => displayed' = displayed]_vars

\* C27 witness: the wizard arrived on page 1 by "Proceed to Travel
\* Preferences" with another profile stored than the one the card on page 0
\* showed when the button was activated.
ArrivedWithAnotherProfile ==
    /\ event = "proceed_to_preferences"
    /\ page = 1
    /\ "analyze_mbti" \in calls
    /\ displayed # None
    /\ displayed.mbti_type # mbti
    /\ displayed.scores # mbti_scores

====
